---- MODULE Spec2Model ----
(***************************************************************************)
(* Model of the income-tax calculator of src/app/page.tsx (component Home). *)
(*                                                                         *)
(* The state is the component's React state: income, age, salaryDetails,   *)
(* deductions, newRegimeTax and oldRegimeTax.  Every event handler is one  *)
(* action.  A handler runs inside the closure of the last render: every    *)
(* value it READS is the value before the event, every setX(...) it calls  *)
(* takes effect when the handler has returned.  An action therefore reads  *)
(* unprimed variables only and primes what the handler sets.               *)
(*                                                                         *)
(* Numbers.  A JavaScript number x is held as the integer 200 * x, i.e. in *)
(* units of 1/200 rupee.  Texts typed by the user are whole rupees, the    *)
(* code multiplies by 0.1, 0.4 and 0.5 (tenths of a rupee) and by rate/100 *)
(* with rates that are multiples of 5, so every value the code computes is *)
(* a whole number of units and the arithmetic below is exact.  Binary      *)
(* floating-point rounding is not modelled.                                *)
(*                                                                         *)
(* taxCall is the bench on which calculateTax is called on its own, with   *)
(* a slab table and an income of the caller's choice (SpecTax): the table, *)
(* the income of the last call and what the call returned.  The page never *)
(* touches it.                                                             *)
(*                                                                         *)
(* lastEvent is the event the page handled last (SpecLog): which listener, *)
(* of which handler, for which field, with what text or checkbox value.    *)
(* The page does not keep it; it is there to tell the events apart.        *)
(***************************************************************************)
EXTENDS Integers, Sequences, FiniteSets

VARIABLES income, age, salaryDetails, deductions, newRegimeTax, oldRegimeTax,
          nEvents, taxCall, lastEvent

vars == <<income, age, salaryDetails, deductions, newRegimeTax, oldRegimeTax,
          nEvents, taxCall, lastEvent>>

\* The number x (whole rupees) as held in the model.
Rupees(x) == x * 200

\* Math.min / Math.max of two numbers.
Min(a, b) == IF a <= b THEN a ELSE b

Max(a, b) == IF a >= b THEN a ELSE b

\* (x * p) / 100 for x >= 0, split so that the product stays in range.
PercentOf(x, p) == (x \div 100) * p + ((x % 100) * p) \div 100

(***************************************************************************)
(* Constants of the program.                                               *)
(***************************************************************************)
\* JavaScript's Infinity as the max of the last slab; no real bound is < 0.
Infinity == -1

\* Variant of NEW_REGIME_SLABS: every slab starts where the one before ends.
NEW_REGIME_SLABS_SharedBounds ==
  << [min |-> Rupees(0),       max |-> Rupees(400000),  rate |-> 0],
     [min |-> Rupees(400000),  max |-> Rupees(800000),  rate |-> 5],
     [min |-> Rupees(800000),  max |-> Rupees(1200000), rate |-> 10],
     [min |-> Rupees(1200000), max |-> Rupees(1600000), rate |-> 15],
     [min |-> Rupees(1600000), max |-> Rupees(2000000), rate |-> 20],
     [min |-> Rupees(2000000), max |-> Rupees(2400000), rate |-> 25],
     [min |-> Rupees(2400000), max |-> Infinity,        rate |-> 30] >>

NEW_REGIME_SLABS ==
  << [min |-> Rupees(0),       max |-> Rupees(400000),  rate |-> 0],
     [min |-> Rupees(400001),  max |-> Rupees(800000),  rate |-> 5],
     [min |-> Rupees(800001),  max |-> Rupees(1200000), rate |-> 10],
     [min |-> Rupees(1200001), max |-> Rupees(1600000), rate |-> 15],
     [min |-> Rupees(1600001), max |-> Rupees(2000000), rate |-> 20],
     [min |-> Rupees(2000001), max |-> Rupees(2400000), rate |-> 25],
     [min |-> Rupees(2400001), max |-> Infinity,        rate |-> 30] >>

OLD_REGIME_SLABS ==
  << [min |-> Rupees(0),       max |-> Rupees(300000),  rate |-> 0],
     [min |-> Rupees(300001),  max |-> Rupees(700000),  rate |-> 5],
     [min |-> Rupees(700001),  max |-> Rupees(1000000), rate |-> 10],
     [min |-> Rupees(1000001), max |-> Rupees(1200000), rate |-> 15],
     [min |-> Rupees(1200001), max |-> Rupees(1500000), rate |-> 20],
     [min |-> Rupees(1500001), max |-> Infinity,        rate |-> 30] >>

STANDARD_DEDUCTION == 75000

OLD_REGIME_STANDARD_DEDUCTION == 50000

SECTION_80C_LIMIT == 150000

SECTION_80CCD_LIMIT == 50000

SECTION_80TTA_LIMIT == 10000

SECTION_80G_LIMIT == 100000

\* The literal 200000 of calculateHomeLoanDeductions.
HOME_LOAN_INTEREST_LIMIT == 200000

(***************************************************************************)
(* The calculators.  They are closures over salaryDetails and deductions   *)
(* in the source; here the captured state is passed explicitly.            *)
(***************************************************************************)
\* Variant of calculateHRA: rule 3 without its floor at 0.
calculateHRAUnfloored(sal) ==
  LET rule1 == sal.hraReceived
      rule2 == ((IF sal.metroCity THEN 5 ELSE 4) * sal.basic) \div 10
      rule3 == sal.rentPaid - (sal.basic \div 10)
  IN  Min(rule1, Min(rule2, rule3))

\* calculateHRA: the least of the three rules.
calculateHRA(sal) ==
  LET rule1 == sal.hraReceived
      rule2 == ((IF sal.metroCity THEN 5 ELSE 4) * sal.basic) \div 10
      rule3 == Max(0, sal.rentPaid - (sal.basic \div 10))
  IN  Min(rule1, Min(rule2, rule3))

calculateHomeLoanDeductions(ded) ==
  LET principal == ded.homeLoan.principal
      interest  == ded.homeLoan.interest
      principalDeduction ==
        Min(principal, Rupees(SECTION_80C_LIMIT) - ded.section80C)
      interestDeduction == Min(interest, Rupees(HOME_LOAN_INTEREST_LIMIT))
  IN  [principal |-> principalDeduction,
       interest  |-> interestDeduction,
       total     |-> principalDeduction + interestDeduction]

\* Variants of calculateTax's loop, one per change named by `variant`:
\*   "lastSlabOnly"    totalTax = baseTax + rateTax, for +=
\*   "byBounds"        each slab taxes min(income, max) - min + 1, no break
\*   "everySlab"       no break, and remainingIncome is never reduced
\*   "noBreak"         the break on remainingIncome <= 0 is missing
\*   "surchargeOnSlab" the surcharge is taken on the slab's own tax
RECURSIVE calculateTaxVariant(_, _, _, _, _)
calculateTaxVariant(slabs, i, totalTax, remainingIncome, variant) ==
  IF \/ i > Len(slabs)
     \/ /\ remainingIncome <= 0
        /\ variant \notin {"byBounds", "everySlab", "noBreak"}
  THEN totalTax
  ELSE LET slab == slabs[i]
           taxableAmount ==
             IF variant = "byBounds"
             THEN (IF slab.max = Infinity
                   THEN remainingIncome
                   ELSE Min(remainingIncome, slab.max))
                  - slab.min + Rupees(1)
             ELSE Min(remainingIncome,
                      IF slab.max = Infinity
                      THEN remainingIncome
                      ELSE slab.max - slab.min + Rupees(1))
           baseTax ==
             IF "fixedAmount" \in DOMAIN slab /\ slab.fixedAmount # 0
             THEN slab.fixedAmount
             ELSE 0
           rateTax == PercentOf(taxableAmount, slab.rate)
           withSlab ==
             IF variant = "lastSlabOnly"
             THEN baseTax + rateTax
             ELSE totalTax + baseTax + rateTax
           withSurcharge ==
             IF "surcharge" \in DOMAIN slab /\ slab.surcharge # 0
             THEN withSlab
                  + PercentOf(IF variant = "surchargeOnSlab"
                              THEN baseTax + rateTax
                              ELSE withSlab,
                              slab.surcharge)
             ELSE withSlab
       IN  calculateTaxVariant(slabs, i + 1, withSurcharge,
                               IF variant \in {"byBounds", "everySlab"}
                               THEN remainingIncome
                               ELSE remainingIncome - taxableAmount,
                               variant)

calculateTaxLastSlabOnly(inc, slabs) ==
  calculateTaxVariant(slabs, 1, 0, inc, "lastSlabOnly")

calculateTaxByBounds(inc, slabs) ==
  calculateTaxVariant(slabs, 1, 0, inc, "byBounds")

calculateTaxEverySlab(inc, slabs) ==
  calculateTaxVariant(slabs, 1, 0, inc, "everySlab")

calculateTaxNoBreak(inc, slabs) ==
  calculateTaxVariant(slabs, 1, 0, inc, "noBreak")

calculateTaxSurchargeOnSlab(inc, slabs) ==
  calculateTaxVariant(slabs, 1, 0, inc, "surchargeOnSlab")

\* The body of calculateTax's for loop, from slab i on.
RECURSIVE calculateTaxFrom(_, _, _, _)
calculateTaxFrom(slabs, i, totalTax, remainingIncome) ==
  IF i > Len(slabs) \/ remainingIncome <= 0
  THEN totalTax
  ELSE LET slab == slabs[i]
           taxableAmount ==
             Min(remainingIncome,
                 IF slab.max = Infinity
                 THEN remainingIncome
                 ELSE slab.max - slab.min + Rupees(1))
           baseTax ==
             IF "fixedAmount" \in DOMAIN slab /\ slab.fixedAmount # 0
             THEN slab.fixedAmount
             ELSE 0
           rateTax == PercentOf(taxableAmount, slab.rate)
           withSlab == totalTax + baseTax + rateTax
           withSurcharge ==
             IF "surcharge" \in DOMAIN slab /\ slab.surcharge # 0
             THEN withSlab + PercentOf(withSlab, slab.surcharge)
             ELSE withSlab
       IN  calculateTaxFrom(slabs, i + 1, withSurcharge,
                            remainingIncome - taxableAmount)

calculateTax(inc, slabs) == calculateTaxFrom(slabs, 1, 0, inc)

\* Variant of section80DDeduction: each premium capped at its own limit.
section80DPerTier(ded) ==
  Min(ded.section80D.self, Rupees(25000))
  + Min(ded.section80D.parents,
        IF ded.section80D.parentsSenior THEN Rupees(50000) ELSE Rupees(25000))

\* Variant of section80DDeduction: the parents' limit ignores parentsSenior.
section80DIgnoringSenior(ded) ==
  Min(Rupees(25000) + Rupees(25000),
      ded.section80D.self + ded.section80D.parents)

\* Section 80D as calculateOldRegimeTax computes it.
section80DDeduction(ded) ==
  LET selfAndFamilyLimit == Rupees(25000)
      parentsLimit ==
        IF ded.section80D.parentsSenior THEN Rupees(50000) ELSE Rupees(25000)
      total80DLimit == selfAndFamilyLimit + parentsLimit
  IN  Min(total80DLimit, ded.section80D.self + ded.section80D.parents)

\* Variant of section80CDeduction: the home-loan principal is left out, as in
\* the "Total Deductions" line of the page.
section80CWithoutPrincipal(ded) ==
  Min(ded.section80C, Rupees(SECTION_80C_LIMIT))

\* Variant of section80CDeduction: principalDeduction alone, section80C not
\* added to it.
section80CPrincipalOnly(ded) ==
  Min(calculateHomeLoanDeductions(ded).principal, Rupees(SECTION_80C_LIMIT))

\* The Section 80C term of calculateOldRegimeTax's taxable income.
section80CDeduction(ded) ==
  Min(ded.section80C + calculateHomeLoanDeductions(ded).principal,
      Rupees(SECTION_80C_LIMIT))

\* Variant of taxableIncome: the Math.max(0, ...) is missing.
taxableIncomeUnclamped(inc, sal, ded) ==
  inc
  - Rupees(OLD_REGIME_STANDARD_DEDUCTION)
  - Min(ded.section80C + calculateHomeLoanDeductions(ded).principal,
        Rupees(SECTION_80C_LIMIT))
  - Min(Rupees(25000)
          + (IF ded.section80D.parentsSenior
             THEN Rupees(50000) ELSE Rupees(25000)),
        ded.section80D.self + ded.section80D.parents)
  - Min(ded.section80CCD, Rupees(SECTION_80CCD_LIMIT))
  - Min(ded.section80TTA, Rupees(SECTION_80TTA_LIMIT))
  - Min(ded.section80G, Rupees(SECTION_80G_LIMIT))
  - calculateHRA(sal)
  - ded.nps
  - ded.educationLoan
  - calculateHomeLoanDeductions(ded).interest

\* Variant of taxableIncome: 80CCD shares the combined 80C limit.
taxableIncomeCCDWithin80C(inc, sal, ded) ==
  Max(0,
      inc
      - Rupees(OLD_REGIME_STANDARD_DEDUCTION)
      - Min(ded.section80C + calculateHomeLoanDeductions(ded).principal
              + ded.section80CCD,
            Rupees(SECTION_80C_LIMIT))
      - section80DDeduction(ded)
      - Min(ded.section80TTA, Rupees(SECTION_80TTA_LIMIT))
      - Min(ded.section80G, Rupees(SECTION_80G_LIMIT))
      - calculateHRA(sal)
      - ded.nps
      - ded.educationLoan
      - calculateHomeLoanDeductions(ded).interest)

\* Variant of taxableIncome: nps is capped like 80CCD.
taxableIncomeNpsCapped(inc, sal, ded) ==
  Max(0,
      inc
      - Rupees(OLD_REGIME_STANDARD_DEDUCTION)
      - section80CDeduction(ded)
      - section80DDeduction(ded)
      - Min(ded.section80CCD, Rupees(SECTION_80CCD_LIMIT))
      - Min(ded.section80TTA, Rupees(SECTION_80TTA_LIMIT))
      - Min(ded.section80G, Rupees(SECTION_80G_LIMIT))
      - calculateHRA(sal)
      - Min(ded.nps, Rupees(SECTION_80CCD_LIMIT))
      - ded.educationLoan
      - calculateHomeLoanDeductions(ded).interest)

\* taxableIncome of calculateOldRegimeTax.
taxableIncome(inc, sal, ded) ==
  LET hraExemption == calculateHRA(sal)
      homeLoanDeductions == calculateHomeLoanDeductions(ded)
  IN  Max(0,
          inc
          - Rupees(OLD_REGIME_STANDARD_DEDUCTION)
          - section80CDeduction(ded)
          - section80DDeduction(ded)
          - Min(ded.section80CCD, Rupees(SECTION_80CCD_LIMIT))
          - Min(ded.section80TTA, Rupees(SECTION_80TTA_LIMIT))
          - Min(ded.section80G, Rupees(SECTION_80G_LIMIT))
          - hraExemption
          - ded.nps
          - ded.educationLoan
          - homeLoanDeductions.interest)

\* Variant of calculateOldRegimeTax: the new regime's slabs are applied.
calculateOldRegimeTaxNewSlabs(inc, sal, ded) ==
  calculateTax(taxableIncome(inc, sal, ded), NEW_REGIME_SLABS)

\* Variant of calculateOldRegimeTax: 50000 more comes off for the two
\* senior age groups.
calculateOldRegimeTaxByAge(inc, sal, ded) ==
  calculateTax(
    Max(0, taxableIncome(inc, sal, ded)
           - (IF age = "below60" THEN 0 ELSE Rupees(50000))),
    OLD_REGIME_SLABS)

calculateOldRegimeTax(inc, sal, ded) ==
  calculateTax(taxableIncome(inc, sal, ded), OLD_REGIME_SLABS)

(***************************************************************************)
(* What the rendered page shows, computed in the JSX from the state.       *)
(***************************************************************************)
\* The three rule amounts of the panel "HRA Exemption Calculation".
hraRule1Displayed(sal) == sal.hraReceived * 12

hraRule2Displayed(sal) ==
  ((IF sal.metroCity THEN 5 ELSE 4) * sal.basic * 12) \div 10

hraRule3Displayed(sal) ==
  Max(0, sal.rentPaid * 12 - (sal.basic * 12) \div 10)

\* "Eligible HRA Exemption" of the same panel.
hraExemptionDisplayed(sal) == calculateHRA(sal)

\* The 80D term of "Total Deductions (Old Regime)".
section80DDisplayed(ded) ==
  Min(ded.section80D.self + ded.section80D.parents,
      IF ded.section80D.parentsSenior THEN Rupees(75000) ELSE Rupees(50000))

\* "Total Deductions (Old Regime)".
totalDeductionsDisplayed(sal, ded) ==
  Rupees(OLD_REGIME_STANDARD_DEDUCTION)
  + Min(ded.section80C, Rupees(SECTION_80C_LIMIT))
  + section80DDisplayed(ded)
  + Min(ded.section80CCD, Rupees(SECTION_80CCD_LIMIT))
  + Min(ded.section80TTA, Rupees(SECTION_80TTA_LIMIT))
  + Min(ded.section80G, Rupees(SECTION_80G_LIMIT))
  + calculateHRA(sal)
  + ded.nps
  + ded.educationLoan
  + Min(ded.homeLoan.interest, Rupees(200000))

\* "3. Taxable Income" of the new-regime breakdown.
newRegimeTaxableIncomeDisplayed(inc) == inc - Rupees(STANDARD_DEDUCTION)

\* taxableAmount of one line of "Tax Slabs Applied".
slabAmountDisplayed(inc, slab) ==
  Min(Max(0, inc - Rupees(STANDARD_DEDUCTION) - slab.min),
      IF slab.max = Infinity
      THEN inc - Rupees(STANDARD_DEDUCTION) - slab.min
      ELSE slab.max - slab.min)

\* The sum of the amounts after "=" on the lines shown for slabs 1..n: a
\* line is shown when its taxableAmount is above 0.
RECURSIVE slabTaxesDisplayed(_, _)
slabTaxesDisplayed(inc, n) ==
  IF n = 0
  THEN 0
  ELSE slabTaxesDisplayed(inc, n - 1)
       + (IF slabAmountDisplayed(inc, NEW_REGIME_SLABS[n]) > 0
          THEN PercentOf(slabAmountDisplayed(inc, NEW_REGIME_SLABS[n]),
                         NEW_REGIME_SLABS[n].rate)
          ELSE 0)

(***************************************************************************)
(* Texts.  The value of a text input is a sequence of characters.  The     *)
(* texts of the model are made of decimal digits, "-" and letters.         *)
(***************************************************************************)
DigitChars == <<"0", "1", "2", "3", "4", "5", "6", "7", "8", "9">>

IsDigit(c) == \E d \in 1..10 : DigitChars[d] = c

DigitValue(c) == (CHOOSE d \in 1..10 : DigitChars[d] = c) - 1

\* The longest run of digits of text from position i: its value and length.
RECURSIVE ScanDigits(_, _, _, _)
ScanDigits(text, i, value, count) ==
  IF i > Len(text) \/ ~IsDigit(text[i])
  THEN [value |-> value, count |-> count]
  ELSE ScanDigits(text, i + 1, 10 * value + DigitValue(text[i]), count + 1)

\* parseFloat: an optional sign and the digits that follow it; whatever comes
\* after them is ignored; NaN when there is no digit.
parseFloat(text) ==
  LET negative == Len(text) > 0 /\ text[1] = "-"
      scanned  == ScanDigits(text, IF negative THEN 2 ELSE 1, 0, 0)
  IN  IF scanned.count = 0
      THEN [isNaN |-> TRUE, num |-> 0]
      ELSE [isNaN |-> FALSE,
            num   |-> Rupees(IF negative THEN -scanned.value ELSE scanned.value)]

\* The decimal digits of a natural number.
RECURSIVE DecimalDigits(_)
DecimalDigits(n) ==
  IF n < 10
  THEN <<DigitChars[n + 1]>>
  ELSE DecimalDigits(n \div 10) \o <<DigitChars[(n % 10) + 1]>>

\* String(x) for a number of whole rupees, as the text inputs hold.
ToString(x) ==
  IF x < 0
  THEN <<"-">> \o DecimalDigits((-x) \div 200)
  ELSE DecimalDigits(x \div 200)

\* value={x || ''} of a controlled text input.
InputValue(x) == IF x = 0 THEN <<>> ELSE ToString(x)

\* e.target.value || '0' of the onBlur bindings.
OrZero(text) == IF text = <<>> THEN <<"0">> ELSE text

(***************************************************************************)
(* Bounds and the inputs the model enumerates.                             *)
(***************************************************************************)
\* Events handled in one run of Spec.
MaxEvents == 4

\* Events handled in one run of SpecLog.
MaxLogged == 3

\* lastEvent before any event.
NoEvent ==
  [on |-> "none", handler |-> "", key |-> "", value |-> <<>>,
   checked |-> FALSE]

\* taxCall when calculateTax has not been called on the bench.
NoCall == [slabs |-> <<>>, income |-> 0, totalTax |-> 0, called |-> FALSE]

\* Text fields filled in before the income is entered, in SpecCalc.
MaxFilled == 3

IncomeTexts ==
  { <<>>,
    <<"a", "b", "c">>,
    <<"-", "5">>,
    <<"4", "0", "0", "0", "0", "0">>,
    <<"4", "0", "0", "0", "0", "1">>,
    <<"1", "2", "0", "0", "0", "0", "0">> }

FieldTexts ==
  { <<>>,
    <<"a", "b", "c">>,
    <<"-", "5">>,
    <<"1", "0", "0", "0", "0", "0">> }

SalaryKeys == {"basic", "hraReceived", "rentPaid"}

DeductionKeys ==
  {"section80C", "section80CCD", "section80TTA", "section80G", "nps",
   "educationLoan"}

HomeLoanTypes == {"principal", "interest"}

HealthInsuranceTypes == {"self", "parents"}

AgeGroups == {"below60", "60to79", "above80"}

(***************************************************************************)
(* The component's state after construction (the useState initialisers).   *)
(***************************************************************************)
Init ==
  /\ income = 0
  /\ age = "below60"
  /\ salaryDetails =
       [basic |-> 0, hraReceived |-> 0, rentPaid |-> 0, metroCity |-> FALSE]
  /\ deductions =
       [section80C    |-> 0,
        section80D    |-> [self |-> 0, parents |-> 0, parentsSenior |-> FALSE],
        section80CCD  |-> 0,
        section80TTA  |-> 0,
        section80G    |-> 0,
        hra           |-> 0,
        nps           |-> 0,
        educationLoan |-> 0,
        homeLoan      |-> [principal |-> 0, interest |-> 0]]
  /\ newRegimeTax = 0
  /\ oldRegimeTax = 0
  /\ nEvents = 0
  /\ taxCall = NoCall
  /\ lastEvent = NoEvent

(***************************************************************************)
(* The event handlers.                                                     *)
(***************************************************************************)
\* Variant of handleIncomeChange: text that does not parse is handled like
\* the empty text.
handleIncomeChangeNaNResets(value) ==
  /\ IF value = <<>> \/ parseFloat(value).isNaN
     THEN /\ income' = 0
          /\ newRegimeTax' = 0
          /\ oldRegimeTax' = 0
     ELSE /\ income' = parseFloat(value).num
          /\ newRegimeTax' = calculateTax(parseFloat(value).num, NEW_REGIME_SLABS)
          /\ oldRegimeTax' =
               calculateOldRegimeTax(parseFloat(value).num, salaryDetails,
                                     deductions)
  /\ UNCHANGED <<age, salaryDetails, deductions>>

handleIncomeChange(value) ==
  /\ IF value = <<>>
     THEN /\ income' = 0
          /\ newRegimeTax' = 0
          /\ oldRegimeTax' = 0
     ELSE LET numValue == parseFloat(value)
          IN  IF ~numValue.isNaN
              THEN /\ income' = numValue.num
                   /\ newRegimeTax' = calculateTax(numValue.num, NEW_REGIME_SLABS)
                   /\ oldRegimeTax' =
                        calculateOldRegimeTax(numValue.num, salaryDetails, deductions)
              ELSE UNCHANGED <<income, newRegimeTax, oldRegimeTax>>
  /\ UNCHANGED <<age, salaryDetails, deductions>>

\* Variant of TextUpdate: text that does not parse is stored as 0.
TextUpdateZeroOnNaN(old, value) ==
  IF value = <<>>
  THEN 0
  ELSE LET numValue == parseFloat(value)
       IN  IF ~numValue.isNaN THEN numValue.num ELSE 0

\* What a text handler stores for value: 0 for the empty text, the parsed
\* number when there is one, and otherwise the field as it was.
TextUpdate(old, value) ==
  IF value = <<>>
  THEN 0
  ELSE LET numValue == parseFloat(value)
       IN  IF ~numValue.isNaN THEN numValue.num ELSE old

\* handleSalaryDetailChange with a string value.
handleSalaryDetailChange(key, value) ==
  /\ salaryDetails' =
       [salaryDetails EXCEPT ![key] = TextUpdate(salaryDetails[key], value)]
  /\ oldRegimeTax' = calculateOldRegimeTax(income, salaryDetails, deductions)
  /\ UNCHANGED <<income, age, deductions, newRegimeTax>>

\* handleSalaryDetailChange('metroCity', checked): the boolean branch.
handleMetroCityChange(checked) ==
  /\ salaryDetails' = [salaryDetails EXCEPT !.metroCity = checked]
  /\ oldRegimeTax' = calculateOldRegimeTax(income, salaryDetails, deductions)
  /\ UNCHANGED <<income, age, deductions, newRegimeTax>>

handleDeductionChange(key, value) ==
  /\ deductions' =
       [deductions EXCEPT ![key] = TextUpdate(deductions[key], value)]
  /\ oldRegimeTax' = calculateOldRegimeTax(income, salaryDetails, deductions)
  /\ UNCHANGED <<income, age, salaryDetails, newRegimeTax>>

handleHomeLoanChange(type, value) ==
  /\ deductions' =
       [deductions EXCEPT
          !.homeLoan[type] = TextUpdate(deductions.homeLoan[type], value)]
  /\ oldRegimeTax' = calculateOldRegimeTax(income, salaryDetails, deductions)
  /\ UNCHANGED <<income, age, salaryDetails, newRegimeTax>>

handleHealthInsuranceChange(type, value) ==
  /\ deductions' =
       [deductions EXCEPT
          !.section80D[type] = TextUpdate(deductions.section80D[type], value)]
  /\ oldRegimeTax' = calculateOldRegimeTax(income, salaryDetails, deductions)
  /\ UNCHANGED <<income, age, salaryDetails, newRegimeTax>>

handleParentsSeniorChange(checked) ==
  /\ deductions' = [deductions EXCEPT !.section80D.parentsSenior = checked]
  /\ oldRegimeTax' = calculateOldRegimeTax(income, salaryDetails, deductions)
  /\ UNCHANGED <<income, age, salaryDetails, newRegimeTax>>

\* Variant of handleAgeChange: the old-regime tax is not recomputed.
handleAgeChangeAgeOnly(value) ==
  /\ age' = value
  /\ UNCHANGED <<income, salaryDetails, deductions, newRegimeTax,
                 oldRegimeTax>>

\* onChange of the age select.
handleAgeChange(value) ==
  /\ age' = value
  /\ oldRegimeTax' = calculateOldRegimeTax(income, salaryDetails, deductions)
  /\ UNCHANGED <<income, salaryDetails, deductions, newRegimeTax>>

\* Variant of RecommendedRegime: equal taxes recommend the new regime.
RecommendedRegimeTiesNew ==
  IF newRegimeTax <= oldRegimeTax THEN "New Regime" ELSE "Old Regime"

\* The result line "Recommended Regime" of the rendered page.
RecommendedRegime ==
  IF newRegimeTax < oldRegimeTax THEN "New Regime" ELSE "Old Regime"

(***************************************************************************)
(* Spec: the page from its initial state, any MaxEvents events.            *)
(***************************************************************************)
CountEvent ==
  /\ nEvents < MaxEvents
  /\ nEvents' = nEvents + 1
  /\ UNCHANGED <<taxCall, lastEvent>>

Next ==
  \/ \E value \in IncomeTexts :
       CountEvent /\ handleIncomeChange(value)
  \/ \E key \in SalaryKeys, value \in FieldTexts :
       CountEvent /\ handleSalaryDetailChange(key, value)
  \/ \E key \in SalaryKeys :
       CountEvent
       /\ handleSalaryDetailChange(key, OrZero(InputValue(salaryDetails[key])))
  \/ \E checked \in BOOLEAN :
       CountEvent /\ handleMetroCityChange(checked)
  \/ \E key \in DeductionKeys, value \in FieldTexts :
       CountEvent /\ handleDeductionChange(key, value)
  \/ \E key \in DeductionKeys :
       CountEvent
       /\ handleDeductionChange(key, OrZero(InputValue(deductions[key])))
  \/ \E type \in HomeLoanTypes, value \in FieldTexts :
       CountEvent /\ handleHomeLoanChange(type, value)
  \/ \E type \in HomeLoanTypes :
       CountEvent
       /\ handleHomeLoanChange(type, OrZero(InputValue(deductions.homeLoan[type])))
  \/ \E type \in HealthInsuranceTypes, value \in FieldTexts :
       CountEvent /\ handleHealthInsuranceChange(type, value)
  \/ \E type \in HealthInsuranceTypes :
       CountEvent
       /\ handleHealthInsuranceChange(
            type, OrZero(InputValue(deductions.section80D[type])))
  \/ \E checked \in BOOLEAN :
       CountEvent /\ handleParentsSeniorChange(checked)
  \/ \E value \in AgeGroups :
       CountEvent /\ handleAgeChange(value)

Spec == Init /\ [][Next]_vars

(***************************************************************************)
(* SpecCalc: the calculators on a filled-in form.  The form holds up to    *)
(* MaxFilled non-zero amounts, typed in while the income was still 0 (so   *)
(* both stored taxes are 0, whatever was typed), and then the income is    *)
(* entered: handleIncomeChange applies calculateTax and                    *)
(* calculateOldRegimeTax to the form as it stands.                         *)
(***************************************************************************)
\* The amounts (whole rupees) a field may have been given.
FormAmounts ==
  [basic         |-> <<50000, 30000>>,
   hraReceived   |-> <<25000, 10000>>,
   rentPaid      |-> <<20000, 3000>>,
   section80C    |-> <<100000, 200000>>,
   section80CCD  |-> <<30000, 60000>>,
   section80TTA  |-> <<5000, 12000>>,
   section80G    |-> <<50000, 120000>>,
   nps           |-> <<20000, 50000>>,
   educationLoan |-> <<40000, 1000000>>,
   principal     |-> <<100000, 40000>>,
   interest      |-> <<150000, 250000>>,
   self          |-> <<30000, 10000>>,
   parents       |-> <<40000, 60000>>]

FormFields == DOMAIN FormAmounts

FilledSets == {S \in SUBSET FormFields : Cardinality(S) <= MaxFilled}

\* The amount of field f when the fields of S are filled as pick says.
FormAmount(S, pick, f) ==
  IF f \in S THEN Rupees(FormAmounts[f][pick[f]]) ELSE 0

InitCalc ==
  \E S \in FilledSets : \E pick \in [S -> 1..2] :
    \E metroCity \in BOOLEAN, parentsSenior \in BOOLEAN :
      /\ income = 0
      /\ age = "below60"
      /\ salaryDetails =
           [basic       |-> FormAmount(S, pick, "basic"),
            hraReceived |-> FormAmount(S, pick, "hraReceived"),
            rentPaid    |-> FormAmount(S, pick, "rentPaid"),
            metroCity   |-> metroCity]
      /\ deductions =
           [section80C    |-> FormAmount(S, pick, "section80C"),
            section80D    |-> [self          |-> FormAmount(S, pick, "self"),
                               parents       |-> FormAmount(S, pick, "parents"),
                               parentsSenior |-> parentsSenior],
            section80CCD  |-> FormAmount(S, pick, "section80CCD"),
            section80TTA  |-> FormAmount(S, pick, "section80TTA"),
            section80G    |-> FormAmount(S, pick, "section80G"),
            hra           |-> 0,
            nps           |-> FormAmount(S, pick, "nps"),
            educationLoan |-> FormAmount(S, pick, "educationLoan"),
            homeLoan      |-> [principal |-> FormAmount(S, pick, "principal"),
                               interest  |-> FormAmount(S, pick, "interest")]]
      /\ newRegimeTax = 0
      /\ oldRegimeTax = 0
      /\ nEvents = 0
      /\ taxCall = NoCall
      /\ lastEvent = NoEvent

NextCalc ==
  \E value \in IncomeTexts :
    handleIncomeChange(value) /\ UNCHANGED <<nEvents, taxCall, lastEvent>>

SpecCalc == InitCalc /\ [][NextCalc]_vars

(***************************************************************************)
(* SpecTax: calculateTax called on its own.  The table is one of the two   *)
(* the page ships or a small table built here, so that slabs with a        *)
(* fixedAmount or a surcharge, which calculateTax provides for and neither *)
(* shipped table has, are visited too.  The incomes sit at and around the  *)
(* points where the loop moves from one slab to the next.                  *)
(***************************************************************************)
\* Slabs of the longest table built here.
MaxSlabs == 3

ShippedTables == {NEW_REGIME_SLABS, OLD_REGIME_SLABS}

\* What a built slab carries besides its bounds; 0 stands for a field the
\* slab does not have.
SlabKinds ==
  [rate : {0, 10}, fixedAmount : {0, Rupees(50)}, surcharge : {0, 10}]

\* Rupees left out between one built slab and the next.
Gaps == {0, Rupees(500)}

MakeSlab(lo, hi, kind) ==
  IF kind.fixedAmount # 0 /\ kind.surcharge # 0
  THEN [min |-> lo, max |-> hi, rate |-> kind.rate,
        fixedAmount |-> kind.fixedAmount, surcharge |-> kind.surcharge]
  ELSE IF kind.fixedAmount # 0
  THEN [min |-> lo, max |-> hi, rate |-> kind.rate,
        fixedAmount |-> kind.fixedAmount]
  ELSE IF kind.surcharge # 0
  THEN [min |-> lo, max |-> hi, rate |-> kind.rate,
        surcharge |-> kind.surcharge]
  ELSE [min |-> lo, max |-> hi, rate |-> kind.rate]

\* Built slab i spans 1000 * i rupees, like the shipped slabs from its min
\* to its max inclusive; the last slab of a table is unbounded.
TestMin(i, gap) == Rupees(500 * (i - 1) * i) + (i - 1) * gap

TestTable(n, kinds, gap) ==
  [i \in 1..n |->
     MakeSlab(TestMin(i, gap),
              IF i = n
              THEN Infinity
              ELSE TestMin(i, gap) + Rupees(1000 * i) - Rupees(1),
              kinds[i])]

TestTables ==
  UNION {{TestTable(n, kinds, gap) :
            kinds \in [1..n -> SlabKinds], gap \in Gaps} :
         n \in 1..MaxSlabs}

\* The income at which the loop, having filled slabs 1..i-1, is done with
\* them: the sum of their max - min + 1.
RECURSIVE WidthBefore(_, _)
WidthBefore(slabs, i) ==
  IF i <= 1
  THEN 0
  ELSE WidthBefore(slabs, i - 1)
       + slabs[i - 1].max - slabs[i - 1].min + Rupees(1)

\* The incomes calculateTax is called with on a table.
ProbeIncomes(slabs) ==
  {WidthBefore(slabs, i) + d :
     i \in 1..Len(slabs), d \in {0 - Rupees(1), 0, 100}}
  \cup {Rupees(0 - 5),
        WidthBefore(slabs, Len(slabs)) + Rupees(1000)}

InitTax ==
  /\ income = 0
  /\ age = "below60"
  /\ salaryDetails =
       [basic |-> 0, hraReceived |-> 0, rentPaid |-> 0, metroCity |-> FALSE]
  /\ deductions =
       [section80C    |-> 0,
        section80D    |-> [self |-> 0, parents |-> 0, parentsSenior |-> FALSE],
        section80CCD  |-> 0,
        section80TTA  |-> 0,
        section80G    |-> 0,
        hra           |-> 0,
        nps           |-> 0,
        educationLoan |-> 0,
        homeLoan      |-> [principal |-> 0, interest |-> 0]]
  /\ newRegimeTax = 0
  /\ oldRegimeTax = 0
  /\ nEvents = 0
  /\ \E slabs \in ShippedTables \cup TestTables :
       taxCall = [NoCall EXCEPT !.slabs = slabs]
  /\ lastEvent = NoEvent

\* One call calculateTax(inc, slabs).
CallCalculateTax(inc) ==
  /\ taxCall' = [slabs    |-> taxCall.slabs,
                 income   |-> inc,
                 totalTax |-> calculateTax(inc, taxCall.slabs),
                 called   |-> TRUE]
  /\ UNCHANGED <<income, age, salaryDetails, deductions, newRegimeTax,
                 oldRegimeTax, nEvents, lastEvent>>

NextTax == \E inc \in ProbeIncomes(taxCall.slabs) : CallCalculateTax(inc)

SpecTax == InitTax /\ [][NextTax]_vars

(***************************************************************************)
(* SpecLog: the page from its initial state, any MaxLogged events, each    *)
(* recorded in lastEvent as it is handled.                                 *)
(***************************************************************************)
LogEvent(on, handler, key, value, checked) ==
  /\ nEvents < MaxLogged
  /\ nEvents' = nEvents + 1
  /\ lastEvent' = [on |-> on, handler |-> handler, key |-> key,
                   value |-> value, checked |-> checked]
  /\ UNCHANGED taxCall

NextLog ==
  \/ \E value \in IncomeTexts :
       /\ LogEvent("change", "handleIncomeChange", "income", value, FALSE)
       /\ handleIncomeChange(value)
  \/ \E key \in SalaryKeys, value \in FieldTexts :
       /\ LogEvent("change", "handleSalaryDetailChange", key, value, FALSE)
       /\ handleSalaryDetailChange(key, value)
  \/ \E key \in SalaryKeys :
       LET value == OrZero(InputValue(salaryDetails[key]))
       IN  /\ LogEvent("blur", "handleSalaryDetailChange", key, value, FALSE)
           /\ handleSalaryDetailChange(key, value)
  \/ \E checked \in BOOLEAN :
       /\ LogEvent("change", "handleSalaryDetailChange", "metroCity", <<>>,
                   checked)
       /\ handleMetroCityChange(checked)
  \/ \E key \in DeductionKeys, value \in FieldTexts :
       /\ LogEvent("change", "handleDeductionChange", key, value, FALSE)
       /\ handleDeductionChange(key, value)
  \/ \E key \in DeductionKeys :
       LET value == OrZero(InputValue(deductions[key]))
       IN  /\ LogEvent("blur", "handleDeductionChange", key, value, FALSE)
           /\ handleDeductionChange(key, value)
  \/ \E type \in HomeLoanTypes, value \in FieldTexts :
       /\ LogEvent("change", "handleHomeLoanChange", type, value, FALSE)
       /\ handleHomeLoanChange(type, value)
  \/ \E type \in HomeLoanTypes :
       LET value == OrZero(InputValue(deductions.homeLoan[type]))
       IN  /\ LogEvent("blur", "handleHomeLoanChange", type, value, FALSE)
           /\ handleHomeLoanChange(type, value)
  \/ \E type \in HealthInsuranceTypes, value \in FieldTexts :
       /\ LogEvent("change", "handleHealthInsuranceChange", type, value, FALSE)
       /\ handleHealthInsuranceChange(type, value)
  \/ \E type \in HealthInsuranceTypes :
       LET value == OrZero(InputValue(deductions.section80D[type]))
       IN  /\ LogEvent("blur", "handleHealthInsuranceChange", type, value,
                       FALSE)
           /\ handleHealthInsuranceChange(type, value)
  \/ \E checked \in BOOLEAN :
       /\ LogEvent("change", "handleParentsSeniorChange", "parentsSenior",
                   <<>>, checked)
       /\ handleParentsSeniorChange(checked)
  \/ \E value \in AgeGroups :
       /\ LogEvent("change", "handleAgeChange", value, <<>>, FALSE)
       /\ handleAgeChange(value)

SpecLog == Init /\ [][NextLog]_vars

(***************************************************************************)
(* The claims.                                                             *)
(***************************************************************************)
\* C1: for every gross income entered through the income field, the stored
\* new-regime tax is the slab tax over NEW_REGIME_SLABS of
\* max(0, income - 75000): the standard deduction comes off first.
C1_NewRegimeTaxAfterStandardDeduction ==
  newRegimeTax =
    calculateTax(Max(0, income - Rupees(STANDARD_DEDUCTION)), NEW_REGIME_SLABS)

\* What handleIncomeChange stores as the new-regime tax of an income.
NewRegimeComputation(inc) == calculateTax(inc, NEW_REGIME_SLABS)

\* C2: after every input-change event the stored oldRegimeTax and
\* newRegimeTax are the old-regime and new-regime computations on the
\* values of income, salaryDetails and deductions after the event.
C2_TaxesFollowInputs ==
  /\ oldRegimeTax = calculateOldRegimeTax(income, salaryDetails, deductions)
  /\ newRegimeTax = NewRegimeComputation(income)

\* C3: calculateTax(400000, NEW_REGIME_SLABS) = 0 and
\* calculateTax(400001, NEW_REGIME_SLABS) = 0.05: the first rupee above
\* 400000 is taxed at 5%.  (handleIncomeChange stores
\* calculateTax(income, NEW_REGIME_SLABS) as newRegimeTax.)
C3_NewRegimeBoundary ==
  /\ income = Rupees(400000) => newRegimeTax = 0
  /\ income = Rupees(400001) => newRegimeTax = PercentOf(Rupees(1), 5)

\* C4: for all non-negative section80C and homeLoan.principal, the amount
\* calculateOldRegimeTax subtracts for 80C is
\* min(section80C + homeLoan.principal, 150000).
C4_Combined80CCap ==
  section80CDeduction(deductions) =
    Min(deductions.section80C + deductions.homeLoan.principal, Rupees(150000))

\* C4 witness: 100000 + 100000 entered, income 1200000 entered after them,
\* and the old-regime tax is that of 1200000 - 50000 - 150000.
C4_Witness ==
  /\ deductions.section80C = Rupees(100000)
  /\ deductions.homeLoan.principal = Rupees(100000)
  /\ income = Rupees(1200000)
  /\ section80CDeduction(deductions) = Rupees(150000)
  /\ oldRegimeTax = calculateTax(Rupees(1000000), OLD_REGIME_SLABS)

\* The premiums of the worked 80D case: self 30000, parents 40000, senior.
WorkedCase80D ==
  /\ deductions.section80D.self = Rupees(30000)
  /\ deductions.section80D.parents = Rupees(40000)
  /\ deductions.section80D.parentsSenior

ParentsLimit ==
  IF deductions.section80D.parentsSenior THEN Rupees(50000) ELSE Rupees(25000)

\* C6: for all non-negative premiums the Section 80D deduction (of a form
\* whose income has been entered) is at most
\* min(self, 25000) + min(parents, parentsLimit); the self-and-family
\* premium alone never contributes more than 25000.
C6_PerTierCaps ==
  income > 0 =>
    section80DDeduction(deductions) <=
      Min(deductions.section80D.self, Rupees(25000))
      + Min(deductions.section80D.parents, ParentsLimit)

\* C7: for all premiums and both values of parentsSenior the Section 80D
\* deduction of calculateOldRegimeTax is
\* min(25000 + parentsLimit, self + parents).
C7_Section80DFormula ==
  section80DDeduction(deductions) =
    Min(Rupees(25000) + ParentsLimit,
        deductions.section80D.self + deductions.section80D.parents)

\* C7 witness: senior parents, premiums 30000 + 60000 above the limit of
\* 75000, income 1200000 entered; the tax is that of 1200000 - 50000 - 75000.
C7_Witness ==
  /\ deductions.section80D.parentsSenior
  /\ deductions.section80D.self = Rupees(30000)
  /\ deductions.section80D.parents = Rupees(60000)
  /\ income = Rupees(1200000)
  /\ oldRegimeTax = calculateTax(Rupees(1075000), OLD_REGIME_SLABS)

\* The taxable income of the old regime as C8 states it.
C8_StatedTaxableIncome ==
  Max(0,
      income
      - Rupees(50000)
      - Min(deductions.section80C + deductions.homeLoan.principal,
            Rupees(150000))
      - Min(Rupees(25000) + ParentsLimit,
            deductions.section80D.self + deductions.section80D.parents)
      - Min(deductions.section80CCD, Rupees(50000))
      - Min(deductions.section80TTA, Rupees(10000))
      - Min(deductions.section80G, Rupees(100000))
      - calculateHRA(salaryDetails)
      - deductions.nps
      - deductions.educationLoan
      - Min(deductions.homeLoan.interest, Rupees(200000)))

\* C8: the old-regime tax is the slab tax over OLD_REGIME_SLABS of
\* max(0, income - 50000 - capped80C - 80D - capped80CCD - capped80TTA
\* - capped80G - hraExemption - nps - educationLoan - cappedHomeLoanInterest),
\* and the taxable income handed to the slab calculator is never negative.
C8_OldRegimeTaxableIncome ==
  /\ taxableIncome(income, salaryDetails, deductions) = C8_StatedTaxableIncome
  /\ taxableIncome(income, salaryDetails, deductions) >= 0
  /\ oldRegimeTax = calculateTax(C8_StatedTaxableIncome, OLD_REGIME_SLABS)

\* C8 witness: 80C 200000, home-loan interest 250000 and NPS 50000 entered,
\* then income 1200000: taxable income 750000, tax 24999.90.
C8_Witness ==
  /\ deductions.section80C = Rupees(200000)
  /\ deductions.homeLoan.interest = Rupees(250000)
  /\ deductions.nps = Rupees(50000)
  /\ income = Rupees(1200000)
  /\ taxableIncome(income, salaryDetails, deductions) = Rupees(750000)
  /\ oldRegimeTax = Rupees(25000) - 20

\* C9: in every reachable state the recommendation shown is "New Regime"
\* exactly when newRegimeTax < oldRegimeTax and "Old Regime" otherwise; equal
\* taxes, the initial 0/0 among them, recommend the old regime.
C9_Recommendation ==
  /\ RecommendedRegime = "New Regime" <=> newRegimeTax < oldRegimeTax
  /\ RecommendedRegime = "Old Regime" <=> newRegimeTax >= oldRegimeTax
  /\ nEvents = 0 => RecommendedRegime = "Old Regime"

\* C9 witness: an income has been entered, the taxes are equal and the old
\* regime is recommended.
C9_Witness ==
  /\ income > 0
  /\ newRegimeTax = oldRegimeTax
  /\ RecommendedRegime = "Old Regime"

\* C10: from the initial state, entering income 1200000 leaves the stored
\* old-regime tax strictly above the stored new-regime tax, and the
\* recommendation is "New Regime".
C10_EndToEnd ==
  (nEvents = 1 /\ income = Rupees(1200000)) =>
    (oldRegimeTax > newRegimeTax /\ RecommendedRegime = "New Regime")

\* C10 witness: the state after that single event, with the two taxes the
\* code stores (72499.85 and 59999.90).
C10_Witness ==
  /\ nEvents = 1
  /\ income = Rupees(1200000)
  /\ oldRegimeTax = Rupees(72500) - 30
  /\ newRegimeTax = Rupees(60000) - 20
  /\ RecommendedRegime = "New Regime"

\* The three HRA rules as C11 states them, on the salary details entered.
C11_Rule1 == salaryDetails.hraReceived

C11_Rule2 ==
  IF salaryDetails.metroCity
  THEN salaryDetails.basic \div 2
  ELSE (salaryDetails.basic \div 5) * 2

C11_Rule3 ==
  IF salaryDetails.rentPaid * 10 > salaryDetails.basic
  THEN salaryDetails.rentPaid - salaryDetails.basic \div 10
  ELSE 0

\* C11: for all non-negative basic, hraReceived, rentPaid and both values of
\* metroCity, calculateHRA returns the least of hraReceived,
\* (0.5 if metroCity else 0.4) * basic and max(0, rentPaid - 0.1 * basic);
\* basic 50000, hraReceived 25000, rentPaid 20000, metro gives 15000.
C11_HRALeastOfThree ==
  /\ calculateHRA(salaryDetails) <= C11_Rule1
  /\ calculateHRA(salaryDetails) <= C11_Rule2
  /\ calculateHRA(salaryDetails) <= C11_Rule3
  /\ calculateHRA(salaryDetails) \in {C11_Rule1, C11_Rule2, C11_Rule3}
  /\ ( /\ salaryDetails.basic = Rupees(50000)
       /\ salaryDetails.hraReceived = Rupees(25000)
       /\ salaryDetails.rentPaid = Rupees(20000)
       /\ salaryDetails.metroCity )
     => calculateHRA(salaryDetails) = Rupees(15000)

\* C11 witness: the worked case with income 1200000 entered; the stored
\* old-regime tax is that of 1200000 - 50000 - 15000.
C11_Witness ==
  /\ salaryDetails.basic = Rupees(50000)
  /\ salaryDetails.hraReceived = Rupees(25000)
  /\ salaryDetails.rentPaid = Rupees(20000)
  /\ salaryDetails.metroCity
  /\ income = Rupees(1200000)
  /\ oldRegimeTax = calculateTax(Rupees(1135000), OLD_REGIME_SLABS)

\* C12: for both regime slab tables and all non-negative incomes a <= b,
\* calculateTax(a, slabs) <= calculateTax(b, slabs): of two calls on the
\* same shipped table, the one with the larger income returns no less.
C12_Monotone ==
  [][ ( /\ taxCall.called
        /\ taxCall.slabs \in ShippedTables
        /\ taxCall.income >= 0
        /\ taxCall.income <= taxCall'.income )
      => taxCall.totalTax <= taxCall'.totalTax ]_vars

\* C12 witness: calculateTax(800001.5, NEW_REGIME_SLABS) has returned
\* 20000.05, the first half rupee taxed at 10%.
C12_Witness ==
  /\ taxCall.called
  /\ taxCall.slabs = NEW_REGIME_SLABS
  /\ taxCall.income = Rupees(800001) + 100
  /\ taxCall.totalTax = Rupees(20000) + 10

\* C13: in every state reachable by any sequence of input events, negative
\* numeric text such as "-5" typed into any field included, the stored
\* newRegimeTax and oldRegimeTax are both >= 0.
C13_StoredTaxesNonNegative == newRegimeTax >= 0 /\ oldRegimeTax >= 0

\* C13 witness: "-5" was typed into the 80C field after an income of
\* 1200000, and the old-regime tax has since been recomputed with it.
C13_Witness ==
  /\ deductions.section80C = Rupees(0 - 5)
  /\ income = Rupees(1200000)
  /\ oldRegimeTax = calculateTax(Rupees(1150005), OLD_REGIME_SLABS)
  /\ oldRegimeTax > 0

\* C14: calculateTax returns 0 for any taxable income <= 0, zero or
\* negative, with either regime's slab table.
C14_NoTaxAtOrBelowZero ==
  ( /\ taxCall.called
    /\ taxCall.slabs \in ShippedTables
    /\ taxCall.income <= 0 )
  => taxCall.totalTax = 0

\* C14 witness: calculateTax(-5, OLD_REGIME_SLABS) has returned 0.
C14_Witness ==
  /\ taxCall.called
  /\ taxCall.slabs = OLD_REGIME_SLABS
  /\ taxCall.income = Rupees(0 - 5)
  /\ taxCall.totalTax = 0

\* What calculateOldRegimeTax subtracts on account of one input: the taxable
\* income with that input at 0 (the deductions `without`) less the taxable
\* income of the form as it stands.
C15_Subtracted(without) ==
  taxableIncome(income, salaryDetails, without)
  - taxableIncome(income, salaryDetails, deductions)

\* C15: in calculateOldRegimeTax the amounts subtracted for 80CCD, 80TTA, 80G
\* and home-loan interest are min(section80CCD, 50000), min(section80TTA,
\* 10000), min(section80G, 100000) and min(homeLoan.interest, 200000), each
\* whatever the other deduction inputs are (while the taxable income is
\* above the floor at 0).
C15_IndependentCaps ==
  taxableIncome(income, salaryDetails, deductions) > 0
  => /\ C15_Subtracted([deductions EXCEPT !.section80CCD = 0])
          = Min(deductions.section80CCD, Rupees(50000))
     /\ C15_Subtracted([deductions EXCEPT !.section80TTA = 0])
          = Min(deductions.section80TTA, Rupees(10000))
     /\ C15_Subtracted([deductions EXCEPT !.section80G = 0])
          = Min(deductions.section80G, Rupees(100000))
     /\ C15_Subtracted([deductions EXCEPT !.homeLoan.interest = 0])
          = Min(deductions.homeLoan.interest, Rupees(200000))

\* C15 witness: 80CCD 60000, 80G 120000 and interest 250000, each over its
\* cap, with income 1200000: the old-regime tax is that of
\* 1200000 - 50000 - 50000 - 100000 - 200000.
C15_Witness ==
  /\ deductions.section80CCD = Rupees(60000)
  /\ deductions.section80G = Rupees(120000)
  /\ deductions.homeLoan.interest = Rupees(250000)
  /\ income = Rupees(1200000)
  /\ oldRegimeTax = calculateTax(Rupees(800000), OLD_REGIME_SLABS)

\* The amounts by which C16 raises an input.
C16_Increases == {Rupees(1), Rupees(40000), Rupees(300000)}

\* C16: additional NPS and education-loan interest are subtracted in full,
\* with no cap: while the old-regime taxable income stays above zero, raising
\* either input by d lowers the taxable income by exactly d.
C16_UncappedPassThroughs ==
  \A d \in C16_Increases :
    /\ taxableIncome(income, salaryDetails,
                     [deductions EXCEPT !.nps = @ + d]) > 0
       => taxableIncome(income, salaryDetails, deductions)
          - taxableIncome(income, salaryDetails,
                          [deductions EXCEPT !.nps = @ + d]) = d
    /\ taxableIncome(income, salaryDetails,
                     [deductions EXCEPT !.educationLoan = @ + d]) > 0
       => taxableIncome(income, salaryDetails, deductions)
          - taxableIncome(income, salaryDetails,
                          [deductions EXCEPT !.educationLoan = @ + d]) = d

\* C16 witness: NPS 50000 and education-loan interest 40000 with income
\* 1200000: the old-regime tax is that of 1200000 - 50000 - 50000 - 40000.
C16_Witness ==
  /\ deductions.nps = Rupees(50000)
  /\ deductions.educationLoan = Rupees(40000)
  /\ income = Rupees(1200000)
  /\ oldRegimeTax = calculateTax(Rupees(1060000), OLD_REGIME_SLABS)

\* The slabs a call with income x visits are 1..C18_LastVisited: slab i is
\* visited when the slabs before it leave some of x over.
C18_LastVisited(slabs, x) ==
  Cardinality({i \in 1..Len(slabs) : x > WidthBefore(slabs, i)})

\* The amount of x taxed in slab i, a visited slab.
C18_TaxedAmount(slabs, x, i) ==
  IF slabs[i].max = Infinity
  THEN x - WidthBefore(slabs, i)
  ELSE Min(x - WidthBefore(slabs, i),
           slabs[i].max - slabs[i].min + Rupees(1))

\* What slab i adds: (fixedAmount or 0) + amount * rate / 100.
C18_SlabAdds(slabs, x, i) ==
  (IF "fixedAmount" \in DOMAIN slabs[i] THEN slabs[i].fixedAmount ELSE 0)
  + PercentOf(C18_TaxedAmount(slabs, x, i), slabs[i].rate)

\* The sum of what slabs 1..k add.
RECURSIVE C18_Sum(_, _, _)
C18_Sum(slabs, x, k) ==
  IF k = 0 THEN 0 ELSE C18_Sum(slabs, x, k - 1) + C18_SlabAdds(slabs, x, k)

C18_NoSurcharge(slabs) ==
  \A i \in 1..Len(slabs) : "surcharge" \notin DOMAIN slabs[i]

\* C18: calculateTax follows the reference slab algorithm for any ascending
\* slab table: slabs are visited in order; in each visited slab the taxed
\* amount is min(remainingIncome, max - min + 1), or all remaining income for
\* the unbounded final slab; the slab adds (fixedAmount or 0) + amount * rate
\* / 100; and once remaining income reaches zero no later slab contributes
\* anything: the table cut after the last visited slab yields the same tax.
C18_ReferenceAlgorithm ==
  taxCall.called
  => LET slabs == taxCall.slabs
         x     == taxCall.income
         k     == C18_LastVisited(slabs, x)
     IN  /\ taxCall.totalTax = calculateTax(x, SubSeq(slabs, 1, k))
         /\ C18_NoSurcharge(slabs) => taxCall.totalTax = C18_Sum(slabs, x, k)

\* C18 witness: three slabs of 10%, the first and the third with a
\* fixedAmount of 50, and an income of 3000 that exactly fills the first two:
\* 50 + 100 + 200, the third slab adding nothing.
C18_Witness ==
  /\ taxCall.called
  /\ taxCall.slabs =
       TestTable(3,
                 <<[rate |-> 10, fixedAmount |-> Rupees(50), surcharge |-> 0],
                   [rate |-> 10, fixedAmount |-> 0, surcharge |-> 0],
                   [rate |-> 10, fixedAmount |-> Rupees(50), surcharge |-> 0]>>,
                 0)
  /\ taxCall.income = Rupees(3000)
  /\ taxCall.totalTax = Rupees(350)

\* C19: when a visited slab carries surcharge s, calculateTax adds s% of the
\* cumulative total tax accumulated so far (all earlier slabs plus this
\* slab's own contribution), not s% of this slab's contribution alone, and
\* adds it to the running total before the next slab is processed.  Stated
\* at the last slab a call visits, the total of the slabs before it being
\* that of the table cut before this slab.
C19_SurchargeCompounds ==
  LET slabs == taxCall.slabs
      x     == taxCall.income
      k     == C18_LastVisited(slabs, x)
  IN  ( /\ taxCall.called
        /\ k >= 1
        /\ "surcharge" \in DOMAIN slabs[k] )
      => LET soFar == calculateTax(x, SubSeq(slabs, 1, k - 1))
                      + C18_SlabAdds(slabs, x, k)
         IN  taxCall.totalTax = soFar + (soFar * slabs[k].surcharge) \div 100

\* C19 witness: two slabs of 10%, the second with a surcharge of 10%, and an
\* income of 2000: 100 + 100 and then 10% of 200, not of 100.
C19_Witness ==
  /\ taxCall.called
  /\ taxCall.slabs =
       TestTable(2,
                 <<[rate |-> 10, fixedAmount |-> 0, surcharge |-> 0],
                   [rate |-> 10, fixedAmount |-> 0, surcharge |-> 10]>>,
                 0)
  /\ taxCall.income = Rupees(2000)
  /\ taxCall.totalTax = Rupees(220)

\* The slab-table invariant.
C20_SlabTableInvariant(slabs) ==
  /\ slabs[1].min = 0
  /\ \A i \in 2..Len(slabs) :
       /\ slabs[i - 1].max # Infinity
       /\ slabs[i].min = slabs[i - 1].max + Rupees(1)
       /\ slabs[i].min > slabs[i - 1].min
       /\ slabs[i].rate >= slabs[i - 1].rate
  /\ \A i \in 1..Len(slabs) :
       slabs[i].max # Infinity => slabs[i].max >= slabs[i].min
  /\ slabs[Len(slabs)].max = Infinity

\* C20: both shipped slab tables satisfy the slab-table invariant: the first
\* slab starts at 0, each slab's min equals the previous slab's max + 1, only
\* the final slab has max = Infinity, and rates are non-decreasing from slab
\* to slab.
C20_ShippedTablesInvariant ==
  taxCall.slabs \in {NEW_REGIME_SLABS, OLD_REGIME_SLABS}
  => C20_SlabTableInvariant(taxCall.slabs)

\* C20 witness: calculateTax(2401001, NEW_REGIME_SLABS) has gone through all
\* seven slabs and returned 300300.
C20_Witness ==
  /\ taxCall.called
  /\ taxCall.slabs = NEW_REGIME_SLABS
  /\ taxCall.income = Rupees(2401001)
  /\ taxCall.totalTax = Rupees(300300)

\* The handlers that receive a text.
C21_TextHandlers ==
  {"handleIncomeChange", "handleSalaryDetailChange", "handleDeductionChange",
   "handleHomeLoanChange", "handleHealthInsuranceChange"}

C21_IsTextEvent(e) == e.handler \in C21_TextHandlers /\ e.key # "metroCity"

\* The field a text event e writes to, as it is in the current state.
C21_Field(e) ==
  CASE e.handler = "handleIncomeChange" -> income
    [] e.handler = "handleSalaryDetailChange" -> salaryDetails[e.key]
    [] e.handler = "handleDeductionChange" -> deductions[e.key]
    [] e.handler = "handleHomeLoanChange" -> deductions.homeLoan[e.key]
    [] e.handler = "handleHealthInsuranceChange" -> deductions.section80D[e.key]

\* The field the last event wrote to.
C21_FieldOfLastEvent == C21_Field(lastEvent)

C21_Unparsable(text) == text # <<>> /\ parseFloat(text).isNaN

\* C21 as stated: when an input handler (income, salary detail, deduction,
\* home loan, health insurance) receives text that does not parse to a
\* number, whether empty or non-empty non-numeric, the field is set to 0.
C21_UnparsableGivesZero ==
  ( /\ C21_IsTextEvent(lastEvent)
    /\ lastEvent.value = <<>> \/ C21_Unparsable(lastEvent.value) )
  => C21_FieldOfLastEvent = 0

\* C21 amended: empty text sets the field to 0; non-empty text that does not
\* parse to a number leaves the field as it was.
C21_EmptyGivesZeroUnparsableKeeps ==
  [][ C21_IsTextEvent(lastEvent')
      => /\ lastEvent'.value = <<>> => C21_FieldOfLastEvent' = 0
         /\ C21_Unparsable(lastEvent'.value)
            => C21_FieldOfLastEvent' = C21_Field(lastEvent') ]_vars

\* C21 witness: "abc" has just arrived in the 80C field, which held 100000
\* and still does.
C21_Witness ==
  /\ lastEvent.handler = "handleDeductionChange"
  /\ lastEvent.key = "section80C"
  /\ lastEvent.value = <<"a", "b", "c">>
  /\ deductions.section80C = Rupees(100000)

\* The premiums C22 tries in the two 80D formulas.
C22_Premiums ==
  {Rupees(0), Rupees(10000), Rupees(25000), Rupees(30000), Rupees(40000),
   Rupees(50000), Rupees(60000), Rupees(75000), Rupees(100000)}

\* C22: the 80D amount in the summary "Total Deductions (Old Regime)" is
\* computed by a different formula than the 80D amount of the taxable-income
\* path of calculateOldRegimeTax: there are premium inputs and a
\* parentsSenior value for which the two 80D amounts differ.
C22_Display80DDiffersFromPath ==
  income > 0
  => \E self \in C22_Premiums, parents \in C22_Premiums, senior \in BOOLEAN :
       LET ded == [deductions EXCEPT
                     !.section80D = [self |-> self, parents |-> parents,
                                     parentsSenior |-> senior]]
       IN  section80DDisplayed(ded) # section80DDeduction(ded)

\* C23: for all non-negative inputs, every taxable-income and deduction
\* value the program derives is >= 0 before it is used or shown, the
\* home-loan principal deduction of calculateHomeLoanDeductions and the
\* new-regime "Taxable Income" of the breakdown included.
C23_IntermediatesNonNegative ==
  income > 0
  => /\ calculateHomeLoanDeductions(deductions).principal >= 0
     /\ calculateHomeLoanDeductions(deductions).interest >= 0
     /\ calculateHRA(salaryDetails) >= 0
     /\ section80CDeduction(deductions) >= 0
     /\ section80DDeduction(deductions) >= 0
     /\ taxableIncome(income, salaryDetails, deductions) >= 0
     /\ totalDeductionsDisplayed(salaryDetails, deductions) >= 0
     /\ newRegimeTaxableIncomeDisplayed(income) >= 0

\* C24: in every state reached by entering an income, the sum over slabs of
\* the amounts shown in the new-regime "Tax Slabs Applied" lines equals the
\* "Total New Regime Tax" (the stored newRegimeTax) shown beneath them.
C24_BreakdownSumsToTotal ==
  ( /\ lastEvent.handler = "handleIncomeChange"
    /\ ~parseFloat(lastEvent.value).isNaN )
  => slabTaxesDisplayed(income, Len(NEW_REGIME_SLABS)) = newRegimeTax

\* C25: the HRA exemption that calculateOldRegimeTax subtracts from annual
\* income, shown as "Eligible HRA Exemption", equals the minimum of the
\* three annualised rule amounts shown beside it in the HRA panel.
C25_HRAIsLeastOfDisplayedRules ==
  (income > 0 /\ salaryDetails.basic > 0)
  => LET leastDisplayed ==
           Min(hraRule1Displayed(salaryDetails),
               Min(hraRule2Displayed(salaryDetails),
                   hraRule3Displayed(salaryDetails)))
     IN  /\ calculateHRA(salaryDetails) = leastDisplayed
         /\ hraExemptionDisplayed(salaryDetails) = leastDisplayed

\* What calculateOldRegimeTax subtracts from income before the clamp at 0.
C26_TotalSubtracted ==
  Rupees(OLD_REGIME_STANDARD_DEDUCTION)
  + section80CDeduction(deductions)
  + section80DDeduction(deductions)
  + Min(deductions.section80CCD, Rupees(SECTION_80CCD_LIMIT))
  + Min(deductions.section80TTA, Rupees(SECTION_80TTA_LIMIT))
  + Min(deductions.section80G, Rupees(SECTION_80G_LIMIT))
  + calculateHRA(salaryDetails)
  + deductions.nps
  + deductions.educationLoan
  + calculateHomeLoanDeductions(deductions).interest

\* C26: for all non-negative inputs, the "Total Deductions (Old Regime)"
\* figure of the summary equals the total amount that calculateOldRegimeTax
\* subtracts from income before clamping, home-loan principal under the
\* combined 80C cap included.
C26_SummaryMatchesComputation ==
  income > 0
  => totalDeductionsDisplayed(salaryDetails, deductions) = C26_TotalSubtracted

\* An input-change event: a salary, deduction, home-loan, health-insurance or
\* parents-senior change.
C27_InputChange(e) ==
  /\ e.on = "change"
  /\ e.handler \in {"handleSalaryDetailChange", "handleDeductionChange",
                    "handleHomeLoanChange", "handleHealthInsuranceChange",
                    "handleParentsSeniorChange"}

\* Event e after event before: the blur of the same field, or an age change.
C27_Repeat(before, e) ==
  \/ e.on = "blur" /\ e.handler = before.handler /\ e.key = before.key
  \/ e.handler = "handleAgeChange"

\* C27: if an input-change event is immediately followed by an event that
\* leaves every input unchanged (the same field's blur with the same value,
\* or an age-group change), then after that second event the stored
\* oldRegimeTax equals calculateOldRegimeTax over the current income,
\* salaryDetails and deductions.
C27_ConvergesAfterRepeat ==
  [][ ( /\ C27_InputChange(lastEvent)
        /\ nEvents' = nEvents + 1
        /\ C27_Repeat(lastEvent, lastEvent')
        /\ UNCHANGED <<income, salaryDetails, deductions>> )
      => oldRegimeTax' = calculateOldRegimeTax(income', salaryDetails',
                                               deductions') ]_vars

\* C27 witness: after an income of 1200000, 100000 was typed into the 80C
\* field and the field has just been left: the stored old-regime tax is that
\* of 1200000 - 50000 - 100000.
C27_Witness ==
  /\ lastEvent.on = "blur"
  /\ lastEvent.handler = "handleDeductionChange"
  /\ lastEvent.key = "section80C"
  /\ deductions.section80C = Rupees(100000)
  /\ income = Rupees(1200000)
  /\ oldRegimeTax = calculateTax(Rupees(1050000), OLD_REGIME_SLABS)

\* C28: salary-detail, deduction, home-loan, health-insurance, parents-senior
\* and age-group events never change income or the stored newRegimeTax; an
\* income-change event never changes salaryDetails, deductions or age; and an
\* income event with non-empty unparsable text changes no state at all.
C28_Frames ==
  [][ nEvents' = nEvents + 1
      => /\ lastEvent'.handler # "handleIncomeChange"
            => UNCHANGED <<income, newRegimeTax>>
         /\ lastEvent'.handler = "handleIncomeChange"
            => UNCHANGED <<salaryDetails, deductions, age>>
         /\ ( /\ lastEvent'.handler = "handleIncomeChange"
              /\ C21_Unparsable(lastEvent'.value) )
            => UNCHANGED <<income, age, salaryDetails, deductions,
                           newRegimeTax, oldRegimeTax>> ]_vars

\* C28 witness: "abc" has just arrived in the income field of a page holding
\* income 1200000, its new-regime tax and an 80C amount, all still there.
C28_Witness ==
  /\ lastEvent.handler = "handleIncomeChange"
  /\ lastEvent.value = <<"a", "b", "c">>
  /\ income = Rupees(1200000)
  /\ newRegimeTax = calculateTax(Rupees(1200000), NEW_REGIME_SLABS)
  /\ deductions.section80C = Rupees(100000)

\* The amounts by which C29 raises an input.
C29_Increases == {Rupees(1), Rupees(50000)}

\* The stored inputs with one of them raised by d, or a checkbox ticked.
C29_RaisedDeductions(d) ==
  {[deductions EXCEPT ![key] = @ + d] : key \in DeductionKeys}
  \cup {[deductions EXCEPT !.homeLoan[type] = @ + d] : type \in HomeLoanTypes}
  \cup {[deductions EXCEPT !.section80D[type] = @ + d] :
          type \in HealthInsuranceTypes}
  \cup {[deductions EXCEPT !.section80D.parentsSenior = TRUE]}

C29_RaisedExemptionInputs(d) ==
  {[salaryDetails EXCEPT !.hraReceived = @ + d],
   [salaryDetails EXCEPT !.rentPaid = @ + d],
   [salaryDetails EXCEPT !.metroCity = TRUE]}

C29_OldRegimeTaxNow ==
  calculateOldRegimeTax(income, salaryDetails, deductions)

\* C29 amended: calculateOldRegimeTax(income) is non-increasing in each
\* deduction input and in hraReceived, rentPaid and metroCity, and is never
\* greater than calculateTax(max(0, income - 50000), OLD_REGIME_SLABS); in
\* basic it is not monotone, rule 3 of the HRA exemption falling as basic
\* rises.
C29_DeductionsNeverRaiseTax ==
  income > 0
  => LET now == C29_OldRegimeTaxNow
     IN  /\ \A d \in C29_Increases :
              /\ \A ded \in C29_RaisedDeductions(d) :
                   calculateOldRegimeTax(income, salaryDetails, ded) <= now
              /\ \A sal \in C29_RaisedExemptionInputs(d) :
                   calculateOldRegimeTax(income, sal, deductions) <= now
         /\ now <= calculateTax(Max(0, income - Rupees(50000)),
                                OLD_REGIME_SLABS)

\* C29 as stated: for all non-negative incomes, salary details and deduction
\* inputs, calculateOldRegimeTax(income) is non-increasing in each individual
\* deduction or salary-derived exemption input, basic included, and is never
\* greater than the old-regime tax with no deductions.
C29_NonIncreasingInEveryInput ==
  income > 0
  => /\ C29_DeductionsNeverRaiseTax
     /\ \A d \in C29_Increases :
          calculateOldRegimeTax(income,
                                [salaryDetails EXCEPT !.basic = @ + d],
                                deductions)
            <= C29_OldRegimeTaxNow

\* C29 witness: basic 50000, hraReceived 25000, rentPaid 20000 and income
\* 1200000 are in; the stored old-regime tax is that of these inputs, a
\* further 50000 of 80C would lower it and a basic of 100000 would raise it.
C29_Witness ==
  /\ salaryDetails.basic = Rupees(50000)
  /\ salaryDetails.hraReceived = Rupees(25000)
  /\ salaryDetails.rentPaid = Rupees(20000)
  /\ income = Rupees(1200000)
  /\ oldRegimeTax = C29_OldRegimeTaxNow
  /\ calculateOldRegimeTax(
       income, salaryDetails,
       [deductions EXCEPT !.section80C = @ + Rupees(50000)])
       < oldRegimeTax
  /\ calculateOldRegimeTax(
       income, [salaryDetails EXCEPT !.basic = Rupees(100000)], deductions)
       > oldRegimeTax

\* C30: two runs of the same event sequence that differ only in which
\* age-group value is selected at each age-change event have equal stored
\* oldRegimeTax, newRegimeTax and recommended regime after every step.  An
\* age-change event, whichever value it selects, leaves the inputs and the
\* new-regime tax alone and stores the old-regime tax of the inputs; and the
\* calculators give, for these inputs, the same under the age selected as
\* under the age before.
C30_AgeNoninterference ==
  [][ (nEvents' = nEvents + 1 /\ lastEvent'.handler = "handleAgeChange")
      => /\ UNCHANGED <<income, salaryDetails, deductions, newRegimeTax>>
         /\ oldRegimeTax'
              = calculateOldRegimeTax(income, salaryDetails, deductions)
         /\ calculateOldRegimeTax(income, salaryDetails, deductions)'
              = calculateOldRegimeTax(income, salaryDetails, deductions)
         /\ calculateTax(income, NEW_REGIME_SLABS)'
              = calculateTax(income, NEW_REGIME_SLABS)
         /\ RecommendedRegime'
              = (IF newRegimeTax
                      < calculateOldRegimeTax(income, salaryDetails,
                                              deductions)
                 THEN "New Regime" ELSE "Old Regime") ]_vars

\* C30 witness: "above80" has just been selected on a page with income
\* 1200000 and 80C 100000, and the taxes are those of a page that never left
\* "below60".
C30_Witness ==
  /\ lastEvent.handler = "handleAgeChange"
  /\ age = "above80"
  /\ income = Rupees(1200000)
  /\ deductions.section80C = Rupees(100000)
  /\ newRegimeTax = calculateTax(Rupees(1200000), NEW_REGIME_SLABS)
  /\ oldRegimeTax = calculateTax(Rupees(1050000), OLD_REGIME_SLABS)
  /\ RecommendedRegime = "Old Regime"

====
